---- MODULE Spec2Model ----
(***************************************************************************)
(* Model of the minimal sidechain ledger of src/main.rs: the block body    *)
(* projections (MinimalBody), the validation predicate                     *)
(* (MinimalState::validate_block) and the two transitions                  *)
(* (MinimalState::connect, MinimalState::disconnect).                      *)
(*                                                                         *)
(* Three specifications are given.  Spec runs connect/disconnect from the  *)
(* empty ledger and keeps a log of the calls.  SpecL runs chains of        *)
(* connects undone in reverse order.  SpecV applies validate_block once    *)
(* to a block drawn from a bounded universe.                               *)
(***************************************************************************)
EXTENDS Integers, Sequences, FiniteSets, TLC

VARIABLES
    utxos,            \* MinimalState.utxos   : set of outpoints
    outputs,          \* MinimalState.outputs : function outpoint -> Output
    main_state,       \* the main-chain oracle handed to validate_block
    overflow_checks,  \* build profile: TRUE = arithmetic overflow panics, FALSE = it wraps
    header,           \* header argument of the last call
    body,             \* body argument of the last call
    call,             \* name of the last call ("none" before the first)
    result,           \* what the last call returned ("none" before the first)
    log               \* connect/disconnect calls made so far, oldest first

vars == <<utxos, outputs, main_state, overflow_checks, header, body, call, result, log>>

(***************************************************************************)
(* Bounds                                                                  *)
(***************************************************************************)
\* width in bits of the model's unsigned amount type (u64 in the source)
Width == 2
\* number of transactions a body of the validation universe may hold
MaxTxs == 2
\* number of connect/disconnect calls in a run of Spec
MaxOps == 3

Modulus == 2 ^ Width
U64Max == Modulus - 1

(***************************************************************************)
(* Values                                                                  *)
(***************************************************************************)
Signatures == {"s1", "s2"}

\* String::hash of the sdk: an injective digest from signatures to address bytes
SigHash(signature) == IF signature = "s1" THEN 11 ELSE 12

Addresses == {SigHash(s) : s \in Signatures}

check_signature(address, signature) == SigHash(signature) = address

Output(amount, address) == [amount |-> amount, address |-> address]

\* Outpoint::Coinbase { block_hash, n } and Outpoint::Regular { txid, n }
CoinbaseOutpoint(block_hash, n) == <<"Coinbase", block_hash, n>>
RegularOutpoint(txid, n) == <<"Regular", txid, n>>

Headers == {"h1", "h2"}

\* header.hash() and tx.hash(): collision-free digests of the whole content
HeaderHash(h) == <<"hash", h>>
TxHash(tx) == <<"hash", tx>>

Transaction(di, ri, in, wd, out) ==
    [deposit_inputs |-> di, refund_inputs |-> ri, inputs |-> in,
     withdrawals |-> wd, outputs |-> out]

MinimalBody(coinbase, transactions) ==
    [coinbase |-> coinbase, transactions |-> transactions]

MinimalInput(outpoint, signature) == [outpoint |-> outpoint, signature |-> signature]

(***************************************************************************)
(* Sequence helpers                                                        *)
(***************************************************************************)
RECURSIVE Flatten(_)
Flatten(seqs) == IF seqs = <<>> THEN <<>> ELSE Head(seqs) \o Flatten(Tail(seqs))

RECURSIVE SumSeq(_)
SumSeq(s) == IF s = <<>> THEN 0 ELSE Head(s) + SumSeq(Tail(s))

RECURSIVE SumSet(_, _)
SumSet(f, keys) ==
    IF keys = {} THEN 0
    ELSE LET k == CHOOSE x \in keys : TRUE IN f[k].amount + SumSet(f, keys \ {k})

Amounts(s) == [i \in 1..Len(s) |-> s[i].amount]

(***************************************************************************)
(* Body projection                                                         *)
(***************************************************************************)
\* the (outpoint, output) pairs of the coinbase, in order
CoinbaseOutputs(h, b) ==
    [i \in 1..Len(b.coinbase) |->
        <<CoinbaseOutpoint(HeaderHash(h), i - 1), b.coinbase[i]>>]

\* the (outpoint, output) pairs of the transactions, in body order
RegularOutputs(b) ==
    Flatten([t \in 1..Len(b.transactions) |->
        [i \in 1..Len(b.transactions[t].outputs) |->
            <<RegularOutpoint(TxHash(b.transactions[t]), i - 1),
              b.transactions[t].outputs[i]>>]])

\* HashMap::extend from an empty map: a later pair with the same key replaces an earlier one
MapOf(pairs) ==
    LET keys == {pairs[i][1] : i \in 1..Len(pairs)}
        last(k) == CHOOSE i \in 1..Len(pairs) :
                      /\ pairs[i][1] = k
                      /\ \A j \in 1..Len(pairs) : pairs[j][1] = k => j <= i
    IN [k \in keys |-> pairs[last(k)][2]]

\* the projection without the coinbase outputs
body_outputs_regular_only(h, b) == MapOf(RegularOutputs(b))

\* MinimalBody::outputs
body_outputs(h, b) == MapOf(CoinbaseOutputs(h, b) \o RegularOutputs(b))

body_inputs(b) == Flatten([t \in 1..Len(b.transactions) |-> b.transactions[t].inputs])

body_withdrawals(b) ==
    Flatten([t \in 1..Len(b.transactions) |-> b.transactions[t].withdrawals])

body_deposit_inputs(b) ==
    Flatten([t \in 1..Len(b.transactions) |-> b.transactions[t].deposit_inputs])

body_refund_inputs(b) ==
    Flatten([t \in 1..Len(b.transactions) |-> b.transactions[t].refund_inputs])

(***************************************************************************)
(* Main-chain oracle.  An Option is a sequence: <<>> is None, <<x>> Some(x) *)
(***************************************************************************)
get_deposit(ms, ref) ==
    IF ref \in DOMAIN ms.deposits THEN <<ms.deposits[ref]>> ELSE <<>>

get_withdrawal(ms, ref) ==
    IF ref \in DOMAIN ms.withdrawals THEN <<ms.withdrawals[ref]>> ELSE <<>>

\* a lookup that yields a zero output for an unknown outpoint
get_output_or_default(index, outpoint) ==
    IF outpoint \in DOMAIN index THEN <<index[outpoint]>> ELSE <<Output(0, SigHash("s1"))>>

\* self.outputs.get(&input.outpoint).cloned()
get_output(index, outpoint) ==
    IF outpoint \in DOMAIN index THEN <<index[outpoint]>> ELSE <<>>

\* collect::<Option<Vec<_>>>(): Some(all values) unless one element is None
AllSome(opts) == \A i \in 1..Len(opts) : opts[i] # <<>>
Unwrap(opts) == [i \in 1..Len(opts) |-> opts[i][1]]

(***************************************************************************)
(* validate_block                                                          *)
(***************************************************************************)
Wrap(x) == x % Modulus

\* a signature test that passes whatever is signed
signatures_unchecked(ins, resolved) == TRUE

\* iter().zip(..).all(|(input, output)| output.address.check_signature(&input.signature))
signatures_valid(ins, resolved) ==
    \A i \in 1..Len(ins) : check_signature(resolved[i].address, ins[i].signature)

validate_block(index, ms, checks, h, b) ==
    LET inputs == body_inputs(b)
        deposit_inputs == body_deposit_inputs(b)
        refund_inputs == body_refund_inputs(b)
        so == [i \in 1..Len(inputs) |-> get_output(index, inputs[i].outpoint)]
        cd == [i \in 1..Len(deposit_inputs) |-> get_deposit(ms, deposit_inputs[i].outpoint)]
        rw == [i \in 1..Len(refund_inputs) |-> get_withdrawal(ms, refund_inputs[i].outpoint)]
    IN
    IF ~(AllSome(so) /\ AllSome(cd) /\ AllSome(rw)) THEN "false"
    ELSE
    LET spent_outputs == Unwrap(so)
        claimed_deposits == Unwrap(cd)
        refunded_withdrawals == Unwrap(rw)
        input_signatures_valid == signatures_valid(inputs, spent_outputs)
        deposit_signatures_valid == signatures_valid(deposit_inputs, claimed_deposits)
        refund_signatures_valid == signatures_valid(refund_inputs, refunded_withdrawals)
        all_signatures_valid ==
            input_signatures_valid /\ deposit_signatures_valid /\ refund_signatures_valid
    IN
    IF ~all_signatures_valid THEN "false"
    ELSE
    LET \* every u64 sum and difference: its exact value, then the value the wrapping build keeps
        spent_exact == SumSeq(Amounts(spent_outputs))
        deposits_exact == SumSeq(Amounts(claimed_deposits))
        refunds_exact == SumSeq(Amounts(refunded_withdrawals))
        spent_outputs_amount == Wrap(spent_exact)
        deposits_amount == Wrap(deposits_exact)
        refunds_amount == Wrap(refunds_exact)
        in1_exact == spent_outputs_amount + deposits_amount
        in2_exact == Wrap(in1_exact) + refunds_amount
        total_input_amount == Wrap(in2_exact)
        outs == body_outputs(h, b)
        withdrawals == body_withdrawals(b)
        outputs_exact == SumSet(outs, DOMAIN outs)
        withdrawals_exact == SumSeq(Amounts(withdrawals))
        outputs_amount == Wrap(outputs_exact)
        withdrawals_amount == Wrap(withdrawals_exact)
        out_exact == outputs_amount + withdrawals_amount
        total_output_amount == Wrap(out_exact)
        coinbase_exact == SumSeq(Amounts(b.coinbase))
        total_coinbase_amount == Wrap(coinbase_exact)
        diff_exact == total_output_amount - total_input_amount
        overflowed ==
            \/ spent_exact > U64Max
            \/ deposits_exact > U64Max
            \/ refunds_exact > U64Max
            \/ in1_exact > U64Max
            \/ in2_exact > U64Max
            \/ outputs_exact > U64Max
            \/ withdrawals_exact > U64Max
            \/ out_exact > U64Max
            \/ coinbase_exact > U64Max
            \/ diff_exact < 0
    IN
    IF checks /\ overflowed THEN "panic"
    ELSE IF total_coinbase_amount # Wrap(diff_exact) THEN "false"
    ELSE "true"

(***************************************************************************)
(* connect and disconnect                                                  *)
(***************************************************************************)
InputOutpoints(b) == {body_inputs(b)[i].outpoint : i \in 1..Len(body_inputs(b))}

\* a merge that adds the amount of a new entry to the entry already under its key
Extend_accumulating(index, new) ==
    [k \in DOMAIN index \cup DOMAIN new |->
        IF k \in DOMAIN new /\ k \in DOMAIN index
        THEN [amount |-> (index[k].amount + new[k].amount) % Modulus,
              address |-> new[k].address]
        ELSE IF k \in DOMAIN new THEN new[k] ELSE index[k]]

\* HashMap::extend: the new entries replace entries with the same key
Extend(index, new) ==
    [k \in DOMAIN index \cup DOMAIN new |-> IF k \in DOMAIN new THEN new[k] ELSE index[k]]

\* the new outpoints inserted before the spent ones are removed
ConnectUtxos_insert_first(u, h, b) == (u \cup DOMAIN body_outputs(h, b)) \ InputOutpoints(b)

ConnectUtxos(u, h, b) == (u \ InputOutpoints(b)) \cup DOMAIN body_outputs(h, b)

\* the created outputs not recorded in the index
ConnectOutputs_unrecorded(index, h, b) == index

ConnectOutputs(index, h, b) == Extend(index, body_outputs(h, b))

\* the created outpoints removed, the spent ones not put back
DisconnectUtxos_no_restore(u, h, b) == u \ DOMAIN body_outputs(h, b)

\* the created outpoints removed before the spent ones are put back
DisconnectUtxos_remove_first(u, h, b) ==
    (u \ DOMAIN body_outputs(h, b)) \cup InputOutpoints(b)

DisconnectUtxos(u, h, b) == (u \cup InputOutpoints(b)) \ DOMAIN body_outputs(h, b)

\* one line of the log: the call, its block, the ledger it found, and whether
\* validate_block accepted the block in that ledger
LogEntry(op, h, b) ==
    [op |-> op, header |-> h, body |-> b,
     accepted |-> validate_block(outputs, main_state, overflow_checks, h, b) = "true",
     pre_utxos |-> utxos, pre_outputs |-> outputs]

\* a connect that validates the block again and fails when it is not accepted
connect_revalidating(h, b) ==
    /\ utxos' = ConnectUtxos(utxos, h, b)
    /\ outputs' = ConnectOutputs(outputs, h, b)
    /\ header' = h
    /\ body' = b
    /\ call' = "connect"
    /\ result' = IF validate_block(outputs, main_state, overflow_checks, h, b) = "true"
                 THEN "Ok" ELSE "Err"
    /\ log' = Append(log, LogEntry("connect", h, b))
    /\ UNCHANGED <<main_state, overflow_checks>>

connect(h, b) ==
    /\ utxos' = ConnectUtxos(utxos, h, b)
    /\ outputs' = ConnectOutputs(outputs, h, b)
    /\ header' = h
    /\ body' = b
    /\ call' = "connect"
    /\ result' = "Ok"
    /\ log' = Append(log, LogEntry("connect", h, b))
    /\ UNCHANGED <<main_state, overflow_checks>>

disconnect(h, b) ==
    /\ utxos' = DisconnectUtxos(utxos, h, b)
    /\ header' = h
    /\ body' = b
    /\ call' = "disconnect"
    /\ result' = "Ok"
    /\ log' = Append(log, LogEntry("disconnect", h, b))
    /\ UNCHANGED <<outputs, main_state, overflow_checks>>

\* a validation that records the outputs of the block it looks at
ValidateBlock_recording ==
    /\ call = "none"
    /\ call' = "validate_block"
    /\ result' = validate_block(outputs, main_state, overflow_checks, header, body)
    /\ outputs' = ConnectOutputs(outputs, header, body)
    /\ UNCHANGED <<utxos, main_state, overflow_checks, header, body, log>>

\* validate_block(&self, ..): the call of SpecV, on the block held in header and body
ValidateBlock ==
    /\ call = "none"
    /\ call' = "validate_block"
    /\ result' = validate_block(outputs, main_state, overflow_checks, header, body)
    /\ UNCHANGED <<utxos, outputs, main_state, overflow_checks, header, body, log>>

(***************************************************************************)
(* Inputs                                                                  *)
(***************************************************************************)
A1 == SigHash("s1")

\* the oracle: one deposit of 1 and one refundable withdrawal of the largest amount
MainStates ==
    {[deposits |-> [r \in {"d1"} |-> Output(1, A1)],
      withdrawals |-> [r \in {"w1"} |-> Output(U64Max, A1)]]}

\* references the oracle does not know
MissingDeposit == "d0"
MissingRefund == "w0"

EmptyIndex == [k \in {} |-> Output(0, A1)]

NoBody == MinimalBody(<<>>, <<>>)

\* a body that only pays a coinbase of 1
CoinbaseBody == MinimalBody(<<Output(1, A1)>>, <<>>)

\* a body whose one transaction spends op and pays its amount back to its address
SpendBody(index, op, sig) ==
    MinimalBody(<<>>, <<Transaction(<<>>, <<>>, <<MinimalInput(op, sig)>>, <<>>,
                                    <<index[op]>>)>>)

\* a body whose one transaction claims the deposit and pays it out
DepositBody ==
    MinimalBody(<<>>, <<Transaction(<<MinimalInput("d1", "s1")>>, <<>>, <<>>, <<>>,
                                    <<Output(1, A1)>>)>>)

\* an outpoint no block of the runs of Spec creates
UnknownOutpoint == CoinbaseOutpoint(HeaderHash("h0"), 0)

\* a body whose one transaction spends the unknown outpoint
UnknownSpendBody ==
    MinimalBody(<<>>, <<Transaction(<<>>, <<>>, <<MinimalInput(UnknownOutpoint, "s1")>>,
                                    <<>>, <<Output(1, A1)>>)>>)

\* a body that pays a coinbase of 1 and whose one transaction spends op and pays its
\* amount back; under the header that created op as a coinbase output, the body
\* spends and creates the same outpoint
CoinbaseSpendBody(index, op) ==
    MinimalBody(<<Output(1, A1)>>,
                <<Transaction(<<>>, <<>>, <<MinimalInput(op, "s1")>>, <<>>, <<index[op]>>)>>)

\* the bodies the runs of Spec connect and disconnect in a ledger with this index
Bodies(index) ==
    {CoinbaseBody, DepositBody, UnknownSpendBody}
    \cup {SpendBody(index, op, sig) : op \in DOMAIN index, sig \in Signatures}
    \cup {CoinbaseSpendBody(index, op) : op \in DOMAIN index}

(***************************************************************************)
(* Spec: the transitions, from the empty ledger                            *)
(***************************************************************************)
Init ==
    /\ utxos = {}
    /\ outputs = EmptyIndex
    /\ main_state \in MainStates
    /\ overflow_checks \in BOOLEAN
    /\ header = "h1"
    /\ body = NoBody
    /\ call = "none"
    /\ result = "none"
    /\ log = <<>>

Next ==
    /\ Len(log) < MaxOps
    /\ \/ \E h \in Headers, b \in Bodies(outputs) : connect(h, b)
       \/ \E h \in Headers, b \in Bodies(outputs) : disconnect(h, b)

Spec == Init /\ [][Next]_vars

(***************************************************************************)
(* SpecL: chains of connects undone in reverse order.  A block is connected *)
(* when its inputs are unspent and the outpoints it creates are not; the   *)
(* only block disconnected is the last one connected and not yet undone.   *)
(***************************************************************************)
\* number of connect/disconnect calls in a run of SpecL
MaxLifoOps == 4

\* positions in the log of the connects not yet undone after the first i calls
RECURSIVE OpenChain(_)
OpenChain(i) ==
    IF i = 0 THEN <<>>
    ELSE IF log[i].op = "connect" THEN Append(OpenChain(i - 1), i)
    ELSE IF OpenChain(i - 1) = <<>> THEN <<>>
    ELSE SubSeq(OpenChain(i - 1), 1, Len(OpenChain(i - 1)) - 1)

Connectable(h, b) ==
    /\ InputOutpoints(b) \subseteq utxos
    /\ DOMAIN body_outputs(h, b) \cap utxos = {}

NextL ==
    /\ Len(log) < MaxLifoOps
    /\ \/ \E h \in Headers, b \in Bodies(outputs) : Connectable(h, b) /\ connect(h, b)
       \/ /\ OpenChain(Len(log)) # <<>>
          /\ LET top == log[OpenChain(Len(log))[Len(OpenChain(Len(log)))]]
             IN disconnect(top.header, top.body)

SpecL == Init /\ [][NextL]_vars

(***************************************************************************)
(* SpecV: one call of validate_block                                       *)
(***************************************************************************)
\* outpoint of no output
MissingOutpoint == CoinbaseOutpoint(HeaderHash("h2"), 0)

\* what one transaction claims: nothing, or one deposit, refund or output, known
\* (under either signature) or unknown
ClaimChoices(index, ms) ==
    {<<<<>>, <<>>, <<>>>>}
    \cup {<<<<MinimalInput(r, s)>>, <<>>, <<>>>> : r \in DOMAIN ms.deposits, s \in Signatures}
    \cup {<<<<MinimalInput(MissingDeposit, "s1")>>, <<>>, <<>>>>}
    \cup {<<<<>>, <<MinimalInput(r, s)>>, <<>>>> : r \in DOMAIN ms.withdrawals, s \in Signatures}
    \cup {<<<<>>, <<MinimalInput(MissingRefund, "s1")>>, <<>>>>}
    \cup {<<<<>>, <<>>, <<MinimalInput(o, s)>>>> : o \in DOMAIN index, s \in Signatures}
    \cup {<<<<>>, <<>>, <<MinimalInput(MissingOutpoint, "s1")>>>>}

\* what one transaction creates: nothing, or one withdrawal or output
CreateChoices ==
    {<<<<>>, <<>>>>, <<<<Output(1, A1)>>, <<>>>>}
    \cup {<<<<>>, <<Output(a, A1)>>>> : a \in {1, 2}}

TxUniverse(index, ms) ==
    {Transaction(c[1], c[2], c[3], k[1], k[2]) :
        c \in ClaimChoices(index, ms), k \in CreateChoices}

CoinbaseChoices ==
    {<<>>, <<Output(1, A1)>>, <<Output(U64Max, A1)>>, <<Output(U64Max, A1), Output(1, A1)>>}

BodyUniverse(index, ms) ==
    {MinimalBody(cb, txs) :
        cb \in CoinbaseChoices,
        txs \in UNION {[1..n -> TxUniverse(index, ms)] : n \in 0..MaxTxs}}

\* the ledger after the empty ledger connected the coinbase body
SeedUtxos == ConnectUtxos({}, "h1", CoinbaseBody)
SeedOutputs == ConnectOutputs(EmptyIndex, "h1", CoinbaseBody)

InitV ==
    /\ utxos = SeedUtxos
    /\ outputs = SeedOutputs
    /\ main_state \in MainStates
    /\ overflow_checks \in BOOLEAN
    /\ header = "h1"
    /\ body \in BodyUniverse(SeedOutputs, main_state)
    /\ call = "none"
    /\ result = "none"
    /\ log = <<>>

NextV == ValidateBlock

SpecV == InitV /\ [][NextV]_vars

(***************************************************************************)
(* Vocabulary of the properties                                            *)
(***************************************************************************)
Validated == call = "validate_block"

\* the references of the block in header/body, resolved in the current ledger and oracle
SpentOpts ==
    [i \in 1..Len(body_inputs(body)) |-> get_output(outputs, body_inputs(body)[i].outpoint)]
DepositOpts ==
    [i \in 1..Len(body_deposit_inputs(body)) |->
        get_deposit(main_state, body_deposit_inputs(body)[i].outpoint)]
RefundOpts ==
    [i \in 1..Len(body_refund_inputs(body)) |->
        get_withdrawal(main_state, body_refund_inputs(body)[i].outpoint)]

AllResolve == AllSome(SpentOpts) /\ AllSome(DepositOpts) /\ AllSome(RefundOpts)

\* exact sum of the amounts of the resolved elements of a sequence of Options
SumResolved(opts) ==
    SumSeq([i \in 1..Len(opts) |-> IF opts[i] = <<>> THEN 0 ELSE opts[i][1].amount])

\* exact sum of every output the body lists, coinbase included
ListedOutputsSum(b) ==
    SumSeq(Amounts(b.coinbase))
    + SumSeq([t \in 1..Len(b.transactions) |-> SumSeq(Amounts(b.transactions[t].outputs))])

HasDuplicate(s) == \E i, j \in 1..Len(s) : i < j /\ s[i] = s[j]

Outpoints(ins) == [i \in 1..Len(ins) |-> ins[i].outpoint]

\* every call so far was a connect of a block validate_block accepted in the ledger it found
AllAccepted ==
    /\ Len(log) > 0
    /\ \A i \in 1..Len(log) : log[i].op = "connect" /\ log[i].accepted

\* C1: after connect and then disconnect of a block validate_block accepted, the
\* unspent set and the output index are those of the ledger before the connect.
C1_RoundTrip ==
    LET n == Len(log) IN
    (/\ n >= 2
     /\ log[n - 1].op = "connect"
     /\ log[n - 1].accepted
     /\ log[n].op = "disconnect"
     /\ log[n].header = log[n - 1].header
     /\ log[n].body = log[n - 1].body)
    => (utxos = log[n - 1].pre_utxos /\ outputs = log[n - 1].pre_outputs)

\* C2: an accepted block conserves value over the integers, every listed output counted:
\* coinbase = listed outputs + withdrawals - spent - claimed deposits - claimed refunds.
C2_Conservation ==
    (Validated /\ result = "true")
    => SumSeq(Amounts(body.coinbase))
         = ListedOutputsSum(body) + SumSeq(Amounts(body_withdrawals(body)))
           - SumResolved(SpentOpts) - SumResolved(DepositOpts) - SumResolved(RefundOpts)

\* C3: when every block was accepted and then connected, validate_block accepts no block
\* with an input outside the unspent set, and no outpoint is an input of two connected blocks.
C3_SpentOnce ==
    AllAccepted
    => /\ \A h \in Headers, b \in Bodies(outputs) :
            ~(InputOutpoints(b) \subseteq utxos)
            => validate_block(outputs, main_state, overflow_checks, h, b) = "false"
       /\ \A i, j \in 1..Len(log) :
            i < j => InputOutpoints(log[i].body) \cap InputOutpoints(log[j].body) = {}

\* what one connected block adds to the ledger's value: coinbase + claimed deposits
\* + claimed refunds - withdrawals
BlockNetValue(b) ==
    SumSeq(Amounts(b.coinbase))
    + SumSeq([i \in 1..Len(body_deposit_inputs(b)) |->
                main_state.deposits[body_deposit_inputs(b)[i].outpoint].amount])
    + SumSeq([i \in 1..Len(body_refund_inputs(b)) |->
                main_state.withdrawals[body_refund_inputs(b)[i].outpoint].amount])
    - SumSeq(Amounts(body_withdrawals(b)))

\* C4: from the empty ledger, after blocks each accepted and then connected, the unspent
\* amounts sum to coinbase + deposits + refunds - withdrawals of the connected blocks.
C4_GlobalConservation ==
    AllAccepted
    => SumSet(outputs, utxos) = SumSeq([i \in 1..Len(log) |-> BlockNetValue(log[i].body)])

\* C5: a block that names the same outpoint twice in its inputs, or the same reference
\* twice in its deposit-inputs or in its refund-inputs, is rejected.
C5_DuplicateRejected ==
    (/\ Validated
     /\ \/ HasDuplicate(Outpoints(body_inputs(body)))
        \/ HasDuplicate(Outpoints(body_deposit_inputs(body)))
        \/ HasDuplicate(Outpoints(body_refund_inputs(body))))
    => result = "false"

\* the signatures of the resolved claims of the block in header/body
SignaturesValid(ins, opts) ==
    \A i \in 1..Len(ins) :
        opts[i] # <<>> => check_signature(opts[i][1].address, ins[i].signature)

AllSignaturesValid ==
    /\ SignaturesValid(body_inputs(body), SpentOpts)
    /\ SignaturesValid(body_deposit_inputs(body), DepositOpts)
    /\ SignaturesValid(body_refund_inputs(body), RefundOpts)

\* the totals of validate_block, in exact arithmetic
ExactInputAmount ==
    SumResolved(SpentOpts) + SumResolved(DepositOpts) + SumResolved(RefundOpts)
ExactOutputAmount ==
    SumSet(body_outputs(header, body), DOMAIN body_outputs(header, body))
    + SumSeq(Amounts(body_withdrawals(body)))

\* C6: a block whose references resolve and whose signatures verify, and whose total
\* output amount is below its total input amount, is rejected: the call returns false.
C6_UnderflowRejected ==
    (/\ Validated
     /\ AllResolve
     /\ AllSignaturesValid
     /\ ExactOutputAmount < ExactInputAmount)
    => result = "false"

\* a resolved claim of the sequence carries a signature its address does not accept
BadSignature(ins, opts) ==
    \E i \in 1..Len(ins) :
        opts[i] # <<>> /\ ~check_signature(opts[i][1].address, ins[i].signature)

SomeBadSignature ==
    \/ BadSignature(body_inputs(body), SpentOpts)
    \/ BadSignature(body_deposit_inputs(body), DepositOpts)
    \/ BadSignature(body_refund_inputs(body), RefundOpts)

\* C7: a block in which one resolved claim (spend, deposit claim or refund claim) carries
\* a signature the resolved address does not accept is rejected: the call returns false.
C7_Authorization == (Validated /\ SomeBadSignature) => result = "false"

\* every reference resolves, exactly one claim is made, its signature is refused,
\* the amounts balance, and the call returned
C7_Witness ==
    /\ Validated
    /\ AllResolve
    /\ BadSignature(body_refund_inputs(body), RefundOpts)
    /\ ~BadSignature(body_inputs(body), SpentOpts)
    /\ ~BadSignature(body_deposit_inputs(body), DepositOpts)
    /\ ExactOutputAmount - SumSeq(Amounts(body.coinbase)) = ExactInputAmount
    /\ result = "false"

\* the block names an outpoint the index lacks, or a deposit or a refundable withdrawal
\* the oracle lacks
SomeMissing ==
    \/ \E i \in 1..Len(body_inputs(body)) :
          body_inputs(body)[i].outpoint \notin DOMAIN outputs
    \/ \E i \in 1..Len(body_deposit_inputs(body)) :
          body_deposit_inputs(body)[i].outpoint \notin DOMAIN main_state.deposits
    \/ \E i \in 1..Len(body_refund_inputs(body)) :
          body_refund_inputs(body)[i].outpoint \notin DOMAIN main_state.withdrawals

\* C8: a block with an input absent from the output index, a deposit-input the oracle
\* does not know, or a refund-input the oracle does not know, is rejected.
C8_MissingReference == (Validated /\ SomeMissing) => result = "false"

\* one transaction spends an outpoint the index lacks, the other makes a resolved,
\* signed and balanced claim, and the call returned
C8_Witness ==
    /\ Validated
    /\ \E i \in 1..Len(body_inputs(body)) :
          body_inputs(body)[i].outpoint \notin DOMAIN outputs
    /\ Len(body_deposit_inputs(body)) = 1
    /\ AllSome(DepositOpts)
    /\ AllSignaturesValid
    /\ Len(body.transactions) = 2
    /\ result = "false"

DepositRefsOf(b) ==
    {body_deposit_inputs(b)[i].outpoint : i \in 1..Len(body_deposit_inputs(b))}

\* C9: when every block was accepted and then connected, no deposit reference is claimed
\* by the deposit-inputs of two connected blocks.
C9_DepositOnce ==
    AllAccepted
    => \A i, j \in 1..Len(log) :
          i < j => DepositRefsOf(log[i].body) \cap DepositRefsOf(log[j].body) = {}

\* C10 as stated: a body with no transactions is accepted exactly when its coinbase
\* amounts sum to zero.
C10_EmptyBodyZeroCoinbase ==
    (Validated /\ body.transactions = <<>>)
    => (result = "true" <=> SumSeq(Amounts(body.coinbase)) = 0)

\* C10 amended: a body with no transactions is never rejected, whatever its coinbase:
\* the call returns true, except that the overflow-checking build panics when the
\* coinbase amounts sum to more than the largest amount.
C10_EmptyBodyAccepted ==
    (Validated /\ body.transactions = <<>>)
    => result = IF overflow_checks /\ SumSeq(Amounts(body.coinbase)) > U64Max
                THEN "panic" ELSE "true"

\* a body with no transactions and a coinbase of 1 was accepted
C10_Witness ==
    /\ Validated
    /\ body.transactions = <<>>
    /\ SumSeq(Amounts(body.coinbase)) = 1
    /\ result = "true"

\* C11: no two outputs of a body get the same outpoint: the projected map has as many
\* entries as the body lists outputs, coinbase and transactions together.
C11_UniqueOutpoints ==
    Validated
    => Cardinality(DOMAIN body_outputs(header, body))
         = Len(body.coinbase)
           + SumSeq([t \in 1..Len(body.transactions) |-> Len(body.transactions[t].outputs)])

LastEntry == log[Len(log)]

LastIs(op) == Len(log) > 0 /\ LastEntry.op = op

\* the outpoints the block of the last call spends, and the map of those it creates
LastSpent ==
    {body_inputs(LastEntry.body)[i].outpoint : i \in 1..Len(body_inputs(LastEntry.body))}
LastCreated == body_outputs(LastEntry.header, LastEntry.body)

\* C13: connect leaves the unspent set (U \ I) union keys(O) and the index X overridden
\* by O; an outpoint the block both spends and creates ends up unspent.
C13_ConnectPost ==
    LastIs("connect")
    => /\ \A o \in utxos \cup LastEntry.pre_utxos \cup LastSpent \cup DOMAIN LastCreated :
            o \in utxos <=> (\/ o \in DOMAIN LastCreated
                             \/ (o \in LastEntry.pre_utxos /\ o \notin LastSpent))
       /\ DOMAIN outputs = DOMAIN LastEntry.pre_outputs \cup DOMAIN LastCreated
       /\ \A o \in DOMAIN outputs :
            outputs[o] = IF o \in DOMAIN LastCreated THEN LastCreated[o]
                         ELSE LastEntry.pre_outputs[o]

\* the last call connected a block that spends an outpoint it also creates
C13_Witness ==
    /\ LastIs("connect")
    /\ \E o \in LastSpent : o \in DOMAIN LastCreated /\ o \in LastEntry.pre_utxos /\ o \in utxos

\* C14: disconnect leaves the unspent set (U union I) \ keys(O) and the output index as
\* it was, the records of the outputs the block created included.
C14_DisconnectPost ==
    LastIs("disconnect")
    => /\ \A o \in utxos \cup LastEntry.pre_utxos \cup LastSpent \cup DOMAIN LastCreated :
            o \in utxos <=> (/\ o \notin DOMAIN LastCreated
                             /\ (o \in LastEntry.pre_utxos \/ o \in LastSpent))
       /\ outputs = LastEntry.pre_outputs

\* the last call disconnected a block: an outpoint it created left the unspent set and
\* kept its record, an outpoint it spent came back
C14_Witness ==
    /\ LastIs("disconnect")
    /\ \E o \in DOMAIN LastCreated :
          o \in LastEntry.pre_utxos /\ o \notin utxos /\ o \in DOMAIN outputs
    /\ \E o \in LastSpent :
          o \in DOMAIN outputs /\ o \notin LastEntry.pre_utxos /\ o \in utxos

\* the last two calls connected the same block
ConnectedTwice ==
    /\ Len(log) >= 2
    /\ LastEntry.op = "connect"
    /\ log[Len(log) - 1].op = "connect"
    /\ log[Len(log) - 1].header = LastEntry.header
    /\ log[Len(log) - 1].body = LastEntry.body

\* C15 as stated: connect is not idempotent, the second of two connects of a block in a
\* row leaves a ledger that differs from the one the first left.
C15_SecondConnectDiffers ==
    ConnectedTwice
    => (utxos # LastEntry.pre_utxos \/ outputs # LastEntry.pre_outputs)

\* C15 amended: connect is idempotent, the second of two connects of a block in a row
\* leaves the unspent set and the output index exactly as the first left them.
C15_ConnectIdempotent ==
    ConnectedTwice
    => (utxos = LastEntry.pre_utxos /\ outputs = LastEntry.pre_outputs)

\* a block that spends an unspent outpoint and creates outputs was connected twice in a row
C15_Witness ==
    /\ ConnectedTwice
    /\ DOMAIN LastCreated # {}
    /\ LastSpent \cap log[Len(log) - 1].pre_utxos # {}

\* C16: in a chain of connects undone in reverse order, each disconnect leaves the
\* unspent set as it was before the connect it undoes; with the whole chain undone the
\* unspent set is the one the chain started from.
C16_LifoRollback ==
    (LastIs("disconnect") /\ OpenChain(Len(log) - 1) # <<>>)
    => LET open == OpenChain(Len(log) - 1)
       IN utxos = log[open[Len(open)]].pre_utxos

\* two blocks were connected, the second spending an output of the first, then both
\* were disconnected, last first
C16_Witness ==
    /\ Len(log) = 4
    /\ log[1].op = "connect" /\ log[2].op = "connect"
    /\ log[3].op = "disconnect" /\ log[4].op = "disconnect"
    /\ InputOutpoints(log[2].body) \cap DOMAIN body_outputs(log[1].header, log[1].body) # {}
    /\ OpenChain(4) = <<>>
    /\ utxos = log[1].pre_utxos

\* every connect was of a block validate_block accepted in the ledger it found, every
\* disconnect of a block connected earlier
AcceptedOrUndone ==
    \A i \in 1..Len(log) :
        /\ log[i].op = "connect" => log[i].accepted
        /\ log[i].op = "disconnect"
           => \E j \in 1..(i - 1) :
                 /\ log[j].op = "connect"
                 /\ log[j].header = log[i].header
                 /\ log[j].body = log[i].body

\* C17: after connects of accepted blocks and disconnects of blocks connected before,
\* every outpoint of the unspent set is a key of the output index.
C17_UnspentHaveRecords == AcceptedOrUndone => utxos \subseteq DOMAIN outputs

\* an accepted block that spends an output was connected and disconnected, and the
\* unspent set is not empty
C17_Witness ==
    /\ AcceptedOrUndone
    /\ LastIs("disconnect")
    /\ LastSpent # {}
    /\ utxos # {}

\* C18: connect and disconnect return Ok(()), whatever the ledger and the block.
C18_TransitionsOk == call \in {"connect", "disconnect"} => result = "Ok"

\* a block validate_block does not accept was connected on top of itself, and a block
\* never connected was disconnected
C18_Witness ==
    /\ Len(log) = 3
    /\ log[1].op = "connect" /\ ~log[1].accepted
    /\ log[2].op = "connect" /\ log[2].body = log[1].body /\ log[2].header = log[1].header
    /\ log[3].op = "disconnect" /\ log[3].body # log[1].body
    /\ result = "Ok"

====
